---- MODULE Spec2Model ----
(***************************************************************************)
(* Model of the macro table and macro expansion engine of                  *)
(* src/lexer/pmacros.rs (PContext, MacroObject, MacroFunction).            *)
(*                                                                         *)
(* A byte is a one-character string, a byte buffer (Vec<u8>) a sequence    *)
(* of bytes.  Option<T> is a sequence of length 0 (None) or 1 (Some).      *)
(* Recursive expansion is unfolded into an explicit call stack so that     *)
(* the in_use cells are observable while an expansion is in progress.      *)
(***************************************************************************)
EXTENDS Integers, Sequences, FiniteSets, TLC

VARIABLES macros, if_stack, stack, outs, last, panicked

vars == <<macros, if_stack, stack, outs, last, panicked>>

(***************************************************************************)
(* Bounds of the model.                                                    *)
(***************************************************************************)
MaxIf == 1
MaxDepth == 7

(***************************************************************************)
(* Bytes.                                                                  *)
(***************************************************************************)
Letters == {"A", "B", "F", "a"}
Digits == {"1"}
Quote == "\""
Backslash == "\\"

None == <<>>
Some(x) == <<x>>

Last(s) == s[Len(s)]
Front(s) == SubSeq(s, 1, Len(s) - 1)

\* &buf[from..to] with 0-based half-open offsets, for offsets in range
Slice(buf, from, to) == SubSeq(buf, from + 1, to)

(***************************************************************************)
(* Definitions: IfState, Action, MacroObject, MacroFunction.               *)
(***************************************************************************)
IfState == {"Eval", "Skip", "SkipAndSwitch"}

Arg(n) == [t |-> "Arg", n |-> n]
Concat(n) == [t |-> "Concat", n |-> n]
Stringify(n) == [t |-> "Stringify", n |-> n]
Chunk(n) == [t |-> "Chunk", n |-> n]

MacroObject_new(out, has_id) ==
    [kind |-> "Object", out |-> out, has_id |-> has_id, in_use |-> FALSE]

MacroFunction_new(out, actions, n_args, va_args) ==
    [kind |-> "Function", out |-> out, actions |-> actions,
     n_args |-> n_args, in_use |-> FALSE, va_args |-> va_args]

(***************************************************************************)
(* The macro names and the definitions the directive entry points are      *)
(* driven with.  ObjectDefs and FunctionDefs are the sampled arguments of  *)
(* add_object and add_function; they include self references, cycles and   *)
(* action programs that do not fit the literal buffer or the arguments.    *)
(***************************************************************************)
NameA == <<"A">>
NameB == <<"B">>
NameF == <<"F">>
Names == {NameA, NameB, NameF}

\* #define A 1
A_one == MacroObject_new(<<"1">>, FALSE)
\* #define A a A
A_self == MacroObject_new(<<"a", " ", "A">>, TRUE)
\* #define A B
A_toB == MacroObject_new(<<"B">>, TRUE)
\* #define B A
B_toA == MacroObject_new(<<"A">>, TRUE)
\* #define B a
B_a == MacroObject_new(<<"a">>, TRUE)

ObjectDefs ==
    { [name |-> NameA, mac |-> A_one],
      [name |-> NameA, mac |-> A_self],
      [name |-> NameA, mac |-> A_toB],
      [name |-> NameB, mac |-> B_toA],
      [name |-> NameB, mac |-> B_a] }

\* #define F(x) x
F_id == MacroFunction_new(<<>>, <<Arg(0)>>, 1, None)
\* #define F(x) #x
F_str == MacroFunction_new(<<>>, <<Stringify(0)>>, 1, None)
\* #define F(x,y) 1 x##y a
F_cat == MacroFunction_new(<<"1", " ", " ", "a">>,
                           <<Chunk(2), Concat(0), Concat(1)>>, 2, None)
\* #define F(x,...) x __VA_ARGS__
F_va == MacroFunction_new(<<" ">>, <<Arg(0), Chunk(1), Arg(1)>>, 2, Some(1))
\* #define F(x) x F(x)
F_self == MacroFunction_new(<<" ", "F", "(", ")">>,
                            <<Arg(0), Chunk(3), Arg(0)>>, 1, None)
\* #define F(x) x B(x)
F_toB == MacroFunction_new(<<" ", "B", "(", ")">>,
                           <<Arg(0), Chunk(3), Arg(0)>>, 1, None)
\* an action program whose argument index is not below the argument count
F_badArg == MacroFunction_new(<<>>, <<Arg(1)>>, 1, None)
\* an action program whose chunk end is past the end of the literal buffer
F_badChunk == MacroFunction_new(<<"1">>, <<Chunk(2)>>, 1, None)
\* #define B(x) x F(x)
B_toF == MacroFunction_new(<<" ", "F", "(", ")">>,
                           <<Arg(0), Chunk(3), Arg(0)>>, 1, None)

FunctionDefs ==
    { [name |-> NameF, mac |-> F_id],
      [name |-> NameF, mac |-> F_str],
      [name |-> NameF, mac |-> F_cat],
      [name |-> NameF, mac |-> F_va],
      [name |-> NameF, mac |-> F_self],
      [name |-> NameF, mac |-> F_toB],
      [name |-> NameF, mac |-> F_badArg],
      [name |-> NameF, mac |-> F_badChunk],
      [name |-> NameB, mac |-> B_toF] }

(***************************************************************************)
(* PContext: the macro table and the conditional stack.                    *)
(***************************************************************************)
Insert_KeepsExisting(map, name, mac) ==
    [n \in (DOMAIN map) \cup {name} |-> IF n \in DOMAIN map THEN map[n] ELSE mac]

Insert(map, name, mac) ==
    [n \in (DOMAIN map) \cup {name} |-> IF n = name THEN mac ELSE map[n]]

Remove(map, name) ==
    [n \in (DOMAIN map) \ {name} |-> map[n]]

\* what HashMap::insert and HashMap::remove return: the entry they displace
Lookup(map, name) == IF name \in DOMAIN map THEN Some(map[name]) ELSE None

defined_UnlessInUse(name) ==
    name \in DOMAIN macros /\ ~macros[name].in_use

defined(name) == name \in DOMAIN macros

get_IgnoringInUse(name) ==
    IF name \in DOMAIN macros THEN Some(macros[name]) ELSE None

get(name) ==
    IF name \in DOMAIN macros
    THEN IF macros[name].in_use THEN None ELSE Some(macros[name])
    ELSE None

get_type_IgnoringInUse(name) ==
    IF name \in DOMAIN macros
    THEN LET mac == macros[name] IN
         IF mac.kind = "Object"
         THEN [type |-> "Object", mac |-> mac]
         ELSE [type |-> "Function", n_args |-> mac.n_args, va_args |-> mac.va_args]
    ELSE [type |-> "None"]

get_type(name) ==
    IF get(name) # None
    THEN LET mac == get(name)[1] IN
         IF mac.kind = "Object"
         THEN [type |-> "Object", mac |-> mac]
         ELSE [type |-> "Function", n_args |-> mac.n_args, va_args |-> mac.va_args]
    ELSE [type |-> "None"]

if_state == IF if_stack = <<>> THEN None ELSE Some(Last(if_stack))

(***************************************************************************)
(* The scanner the engine is driven by (Lexer and MacroNode are not part   *)
(* of pmacros.rs): argument collection, the raw and quoted spelling of an  *)
(* argument, and the token boundaries used when text is rescanned.         *)
(***************************************************************************)
RECURSIVE RunEnd(_, _, _)
\* first index >= i of buf whose byte is not in set
RunEnd(buf, i, set) ==
    IF i <= Len(buf) /\ buf[i] \in set THEN RunEnd(buf, i + 1, set) ELSE i

RECURSIVE StringEnd(_, _)
\* index after the quote closing the string literal whose body starts at i
StringEnd(buf, i) ==
    IF i > Len(buf) THEN i
    ELSE IF buf[i] = Backslash THEN StringEnd(buf, IF i + 2 > Len(buf) THEN Len(buf) + 1 ELSE i + 2)
    ELSE IF buf[i] = Quote THEN i + 1
    ELSE StringEnd(buf, i + 1)

RECURSIVE TrimLeft(_)
TrimLeft(s) == IF s # <<>> /\ s[1] = " " THEN TrimLeft(Tail(s)) ELSE s

RECURSIVE TrimRight(_)
TrimRight(s) == IF s # <<>> /\ Last(s) = " " THEN TrimRight(Front(s)) ELSE s

Trim(s) == TrimRight(TrimLeft(s))

RECURSIVE JoinComma(_)
JoinComma(groups) ==
    IF groups = <<>> THEN <<>>
    ELSE IF Len(groups) = 1 THEN groups[1]
    ELSE groups[1] \o <<",">> \o JoinComma(Tail(groups))

RECURSIVE Collect(_, _, _, _, _)
\* splits s from index i at the commas outside nested parentheses, up to
\* the parenthesis that closes the argument list
Collect(s, i, depth, cur, groups) ==
    IF i > Len(s) THEN [ok |-> FALSE, groups |-> <<>>, next |-> i]
    ELSE IF s[i] = "(" THEN Collect(s, i + 1, depth + 1, Append(cur, s[i]), groups)
    ELSE IF s[i] = ")" THEN
        IF depth = 0
        THEN [ok |-> TRUE, groups |-> Append(groups, Trim(cur)), next |-> i + 1]
        ELSE Collect(s, i + 1, depth - 1, Append(cur, s[i]), groups)
    ELSE IF s[i] = "," /\ depth = 0
        THEN Collect(s, i + 1, depth, <<>>, Append(groups, Trim(cur)))
    ELSE Collect(s, i + 1, depth, Append(cur, s[i]), groups)

NoArguments == [ok |-> FALSE, args |-> <<>>, next |-> 1]

\* Lexer::get_arguments(n_args, va_args) on the text s that follows the
\* macro name: Some(args) and the index after the closing parenthesis, or None
get_arguments(s, n_args, va_args) ==
    LET open == RunEnd(s, 1, {" "}) IN
    IF open > Len(s) \/ s[open] # "(" THEN NoArguments
    ELSE LET c == Collect(s, open + 1, 0, <<>>, <<>>)
             k == Len(c.groups)
         IN IF ~c.ok THEN NoArguments
            ELSE IF va_args # None THEN
                LET v == va_args[1] IN
                IF k < v THEN NoArguments
                ELSE [ok |-> TRUE,
                      args |-> Append(SubSeq(c.groups, 1, v),
                                      JoinComma(SubSeq(c.groups, v + 1, k))),
                      next |-> c.next]
            ELSE IF n_args = 0 THEN
                IF k = 1 /\ c.groups[1] = <<>>
                THEN [ok |-> TRUE, args |-> <<>>, next |-> c.next]
                ELSE NoArguments
            ELSE IF k = n_args
                THEN [ok |-> TRUE, args |-> c.groups, next |-> c.next]
                ELSE NoArguments

\* MacroNode::make_expr: the raw spelling of an argument
make_expr(arg) == arg

RECURSIVE Escape(_)
Escape(s) ==
    IF s = <<>> THEN <<>>
    ELSE IF s[1] \in {Quote, Backslash}
         THEN <<Backslash, s[1]>> \o Escape(Tail(s))
         ELSE <<s[1]>> \o Escape(Tail(s))

\* MacroNode::make_string: the raw spelling of an argument as a string literal
make_string(arg) == <<Quote>> \o Escape(arg) \o <<Quote>>

\* the end of the token that starts at index pos of buf
TokenEnd(buf, pos) ==
    IF buf[pos] \in Letters \cup Digits
    THEN RunEnd(buf, pos, Letters \cup Digits)
    ELSE IF buf[pos] = Quote THEN StringEnd(buf, pos + 1)
    ELSE pos + 1

(***************************************************************************)
(* The call stack.  A "scan" frame is a Lexer over buf: the rescan of      *)
(* macro_final_eval when owner names the macro whose in_use cell it holds, *)
(* the evaluation of one argument (eval_nodes) when owner is None.  An     *)
(* "asm" frame is the action loop of eval_parsed_args.  outs is the stack  *)
(* of output buffers: the caller's out below, the local output of each     *)
(* eval_parsed_args in progress above.  call holds what a PContext::eval   *)
(* call saw on entry, reported in last when the call returns.              *)
(***************************************************************************)
ScanFrame(buf, owner, call) ==
    [t |-> "scan", buf |-> buf, pos |-> 1, owner |-> owner, call |-> call]

AsmFrame(name, args, call) ==
    [t |-> "asm", name |-> name, args |-> args, ai |-> 1, out_pos |-> 0, call |-> call]

AppendOut(os, bytes) == [os EXCEPT ![Len(os)] = @ \o bytes]

Entry(name, rest, os) ==
    LET known == name \in DOMAIN macros IN
    [name |-> name,
     out0 |-> Last(os),
     top |-> Len(os) = 1 /\ stack = <<>>,
     rest |-> rest,
     known |-> known,
     in_use |-> known /\ macros[name].in_use,
     kind |-> IF known THEN macros[name].kind ELSE "None"]

Returned(call, ret, out1) ==
    [op |-> "eval", call |-> call, ret |-> ret, out1 |-> out1]

Running == [op |-> "running"]

MacroObject_eval_AlwaysRescans(name, mac, os, call) ==
    [ret |-> TRUE, pending |-> TRUE, call |-> call, consumed |-> 0,
     push |-> <<ScanFrame(mac.out, Some(name), Some(call))>>,
     macros |-> [macros EXCEPT ![name].in_use = TRUE],
     outs |-> os]

\* MacroObject::eval
MacroObject_eval(name, mac, os, call) ==
    IF mac.has_id
    THEN [ret |-> TRUE, pending |-> TRUE, call |-> call, consumed |-> 0,
          push |-> <<ScanFrame(mac.out, Some(name), Some(call))>>,
          macros |-> [macros EXCEPT ![name].in_use = TRUE],
          outs |-> os]
    ELSE [ret |-> TRUE, pending |-> FALSE, call |-> call, consumed |-> 0,
          push |-> <<>>,
          macros |-> macros,
          outs |-> AppendOut(os, mac.out)]

eval_TrueOnFailedCollection(name, rest, os) ==
    LET call == Entry(name, rest, os)
        fail == [ret |-> FALSE, pending |-> FALSE, call |-> call, consumed |-> 0,
                 push |-> <<>>, macros |-> macros, outs |-> os]
    IN IF get(name) # None
       THEN LET mac == get(name)[1] IN
            IF mac.kind = "Object"
            THEN MacroObject_eval(name, mac, os, call)
            ELSE LET a == get_arguments(rest, mac.n_args, mac.va_args) IN
                 IF a.ok
                 THEN [ret |-> TRUE, pending |-> TRUE, call |-> call,
                       consumed |-> a.next - 1,
                       push |-> <<AsmFrame(name, a.args, Some(call))>>,
                       macros |-> macros,
                       outs |-> Append(os, <<>>)]
                 ELSE [fail EXCEPT !.ret = TRUE]
       ELSE fail

eval_WithoutVaArgs(name, rest, os) ==
    LET call == Entry(name, rest, os)
        fail == [ret |-> FALSE, pending |-> FALSE, call |-> call, consumed |-> 0,
                 push |-> <<>>, macros |-> macros, outs |-> os]
    IN IF get(name) # None
       THEN LET mac == get(name)[1] IN
            IF mac.kind = "Object"
            THEN MacroObject_eval(name, mac, os, call)
            ELSE LET a == get_arguments(rest, mac.n_args, None) IN
                 IF a.ok
                 THEN [ret |-> TRUE, pending |-> TRUE, call |-> call,
                       consumed |-> a.next - 1,
                       push |-> <<AsmFrame(name, a.args, Some(call))>>,
                       macros |-> macros,
                       outs |-> Append(os, <<>>)]
                 ELSE fail
       ELSE fail

eval_InUseFromCall(name, rest, os) ==
    LET call == Entry(name, rest, os)
        fail == [ret |-> FALSE, pending |-> FALSE, call |-> call, consumed |-> 0,
                 push |-> <<>>, macros |-> macros, outs |-> os]
    IN IF get(name) # None
       THEN LET mac == get(name)[1] IN
            IF mac.kind = "Object"
            THEN MacroObject_eval(name, mac, os, call)
            ELSE LET a == get_arguments(rest, mac.n_args, mac.va_args) IN
                 IF a.ok
                 THEN [ret |-> TRUE, pending |-> TRUE, call |-> call,
                       consumed |-> a.next - 1,
                       push |-> <<AsmFrame(name, a.args, Some(call))>>,
                       macros |-> [macros EXCEPT ![name].in_use = TRUE],
                       outs |-> Append(os, <<>>)]
                 ELSE fail
       ELSE fail

\* PContext::eval(name, lexer, out), lexer standing at rest and out being
\* the top of os: what the call returns at once, or the frame it runs next
eval(name, rest, os) ==
    LET call == Entry(name, rest, os)
        fail == [ret |-> FALSE, pending |-> FALSE, call |-> call, consumed |-> 0,
                 push |-> <<>>, macros |-> macros, outs |-> os]
    IN IF get(name) # None
       THEN LET mac == get(name)[1] IN
            IF mac.kind = "Object"
            THEN MacroObject_eval(name, mac, os, call)
            ELSE LET a == get_arguments(rest, mac.n_args, mac.va_args) IN
                 IF a.ok
                 THEN [ret |-> TRUE, pending |-> TRUE, call |-> call,
                       consumed |-> a.next - 1,
                       push |-> <<AsmFrame(name, a.args, Some(call))>>,
                       macros |-> macros,
                       outs |-> Append(os, <<>>)]
                 ELSE fail
       ELSE fail

(***************************************************************************)
(* The invocations the scanner hands to PContext::eval: the identifier,    *)
(* the text that follows it, and what out already holds.                   *)
(***************************************************************************)
CallNames == Names \cup {<<"a">>}

\* F           (no argument list follows)
InNone == <<>>
\* F(A)
InA == <<"(", "A", ")">>
\* F(A, B)
InAB == <<"(", "A", ",", " ", "B", ")">>
\* F(A         (the input ends inside the argument list)
InOpen == <<"(", "A">>
\* F(a, 1, 1)
InThree == <<"(", "a", ",", " ", "1", ",", " ", "1", ")">>
\* F(F(A))
InNested == <<"(", "F", "(", "A", ")", ")">>

Inputs == {InNone, InA, InAB, InOpen, InThree, InNested}

Prefixes == { <<"1">> }

\* what an out-of-range get_unchecked may hand to extend_from_slice
UncheckedBytes == { <<>>, <<"a">> }

Init ==
    /\ macros = <<>>
    /\ if_stack = <<>>
    /\ stack = <<>>
    /\ outs = << <<>> >>
    /\ last = [op |-> "init"]
    /\ panicked = FALSE

\* no call is in progress and the result of the last one has been taken
Idle == stack = <<>> /\ ~panicked /\ last.op # "eval"

(***************************************************************************)
(* Directive entry points (they take &mut self: no expansion is running).  *)
(***************************************************************************)
add_object(d) ==
    /\ Idle
    /\ macros' = Insert(macros, d.name, d.mac)
    /\ last' = [op |-> "add_object", name |-> d.name, mac |-> d.mac,
                 old |-> Lookup(macros, d.name)]
    /\ UNCHANGED <<if_stack, stack, outs, panicked>>

add_function(d) ==
    /\ Idle
    /\ macros' = Insert(macros, d.name, d.mac)
    /\ last' = [op |-> "add_function", name |-> d.name, mac |-> d.mac,
                 old |-> Lookup(macros, d.name)]
    /\ UNCHANGED <<if_stack, stack, outs, panicked>>

undef(name) ==
    /\ Idle
    /\ macros' = Remove(macros, name)
    /\ last' = [op |-> "undef", name |-> name, old |-> Lookup(macros, name)]
    /\ UNCHANGED <<if_stack, stack, outs, panicked>>

add_if(state) ==
    /\ Idle
    /\ Len(if_stack) < MaxIf
    /\ if_stack' = Append(if_stack, state)
    /\ last' = [op |-> "add_if", state |-> state]
    /\ UNCHANGED <<macros, stack, outs, panicked>>

rm_if ==
    /\ Idle
    /\ if_stack' = IF if_stack = <<>> THEN <<>> ELSE Front(if_stack)
    /\ last' = [op |-> "rm_if"]
    /\ UNCHANGED <<macros, stack, outs, panicked>>

if_change(state) ==
    /\ Idle
    /\ IF if_stack = <<>>
       THEN \* last_mut() is None: unwrap() panics
            /\ panicked' = TRUE
            /\ UNCHANGED if_stack
       ELSE /\ if_stack' = [if_stack EXCEPT ![Len(if_stack)] = state]
            /\ UNCHANGED panicked
    /\ last' = [op |-> "if_change", state |-> state]
    /\ UNCHANGED <<macros, stack, outs>>

(***************************************************************************)
(* PContext::eval called by the scanner on an identifier of the source.    *)
(***************************************************************************)
Expand(name, input, prefix) ==
    /\ Idle
    /\ LET r == eval(name, input, <<prefix>>) IN
       /\ macros' = r.macros
       /\ stack' = r.push
       /\ outs' = r.outs
       /\ last' = IF r.pending THEN Running ELSE Returned(r.call, r.ret, Last(r.outs))
    /\ UNCHANGED <<if_stack, panicked>>

\* the caller takes the result of the call and drops its output buffer
Return ==
    /\ stack = <<>>
    /\ ~panicked
    /\ last.op = "eval"
    /\ outs' = << <<>> >>
    /\ last' = [op |-> "idle"]
    /\ UNCHANGED <<macros, if_stack, stack, panicked>>

(***************************************************************************)
(* Lexer::macro_final_eval and MacroNode::eval_nodes, one token a step.    *)
(***************************************************************************)
Scanning ==
    /\ stack # <<>>
    /\ ~panicked
    /\ Last(stack).t = "scan"

\* an identifier: PContext::eval on it, the identifier itself when eval
\* returns false
ScanIdent ==
    /\ Scanning
    /\ LET f == Last(stack) IN
       /\ f.pos <= Len(f.buf)
       /\ f.buf[f.pos] \in Letters
       /\ LET e == TokenEnd(f.buf, f.pos)
              tok == SubSeq(f.buf, f.pos, e - 1)
              r == eval(tok, SubSeq(f.buf, e, Len(f.buf)), outs)
          IN /\ Len(stack) + Len(r.push) <= MaxDepth
             /\ macros' = r.macros
             /\ stack' = Append(Front(stack), [f EXCEPT !.pos = e + r.consumed]) \o r.push
             /\ outs' = IF r.ret THEN r.outs ELSE AppendOut(outs, tok)
             /\ last' = IF r.pending THEN Running
                        ELSE Returned(r.call, r.ret, Last(r.outs))
    /\ UNCHANGED <<if_stack, panicked>>

\* any other token is copied
ScanCopy ==
    /\ Scanning
    /\ LET f == Last(stack) IN
       /\ f.pos <= Len(f.buf)
       /\ f.buf[f.pos] \notin Letters
       /\ LET e == TokenEnd(f.buf, f.pos) IN
          /\ stack' = Append(Front(stack), [f EXCEPT !.pos = e])
          /\ outs' = AppendOut(outs, SubSeq(f.buf, f.pos, e - 1))
    /\ UNCHANGED <<macros, if_stack, last, panicked>>

RescanEnd_KeepsInUse ==
    /\ Scanning
    /\ LET f == Last(stack) IN
       /\ f.pos > Len(f.buf)
       /\ f.owner # None
       /\ stack' = Front(stack)
       /\ last' = Returned(f.call[1], TRUE, Last(outs))
    /\ UNCHANGED <<macros, if_stack, outs, panicked>>

\* macro_final_eval returns into MacroObject::eval or eval_parsed_args,
\* which clears in_use and returns; PContext::eval then returns true
RescanEnd ==
    /\ Scanning
    /\ LET f == Last(stack) IN
       /\ f.pos > Len(f.buf)
       /\ f.owner # None
       /\ macros' = [macros EXCEPT ![f.owner[1]].in_use = FALSE]
       /\ stack' = Front(stack)
       /\ last' = Returned(f.call[1], TRUE, Last(outs))
    /\ UNCHANGED <<if_stack, outs, panicked>>

\* eval_nodes returns into the action loop
ArgEnd ==
    /\ Scanning
    /\ LET f == Last(stack) IN
       /\ f.pos > Len(f.buf)
       /\ f.owner = None
       /\ stack' = Front(stack)
    /\ UNCHANGED <<macros, if_stack, outs, last, panicked>>

(***************************************************************************)
(* MacroFunction::eval_parsed_args, one action of the program a step.      *)
(***************************************************************************)
Assembling ==
    /\ stack # <<>>
    /\ ~panicked
    /\ Last(stack).t = "asm"

Self == macros[Last(stack).name]

InLoop == Assembling /\ Last(stack).ai <= Len(Self.actions)

Current == Self.actions[Last(stack).ai]

NextAction(f) == [f EXCEPT !.ai = @ + 1]

\* a panic unwinds the whole call stack; no in_use cell is touched
Unwind ==
    /\ panicked' = TRUE
    /\ stack' = <<>>
    /\ outs' = <<outs[1]>>
    /\ last' = [op |-> "panic"]
    /\ UNCHANGED <<macros, if_stack>>

\* args[*pos] with pos not below args.len()
IndexPanic ==
    /\ InLoop
    /\ Current.t \in {"Arg", "Concat", "Stringify"}
    /\ Current.n >= Len(Last(stack).args)
    /\ Unwind

ActionArg ==
    /\ InLoop
    /\ Current.t = "Arg"
    /\ Current.n < Len(Last(stack).args)
    /\ Len(stack) < MaxDepth
    /\ LET f == Last(stack) IN
       stack' = Append(Front(stack), NextAction(f))
                  \o <<ScanFrame(f.args[Current.n + 1], None, None)>>
    /\ UNCHANGED <<macros, if_stack, outs, last, panicked>>

ActionConcat_Expands ==
    /\ InLoop
    /\ Current.t = "Concat"
    /\ Current.n < Len(Last(stack).args)
    /\ Len(stack) < MaxDepth
    /\ LET f == Last(stack) IN
       stack' = Append(Front(stack), NextAction(f))
                  \o <<ScanFrame(f.args[Current.n + 1], None, None)>>
    /\ UNCHANGED <<macros, if_stack, outs, last, panicked>>

ActionConcat ==
    /\ InLoop
    /\ Current.t = "Concat"
    /\ Current.n < Len(Last(stack).args)
    /\ LET f == Last(stack) IN
       /\ outs' = AppendOut(outs, make_expr(f.args[Current.n + 1]))
       /\ stack' = Append(Front(stack), NextAction(f))
    /\ UNCHANGED <<macros, if_stack, last, panicked>>

ActionStringify ==
    /\ InLoop
    /\ Current.t = "Stringify"
    /\ Current.n < Len(Last(stack).args)
    /\ LET f == Last(stack) IN
       /\ outs' = AppendOut(outs, make_string(f.args[Current.n + 1]))
       /\ stack' = Append(Front(stack), NextAction(f))
    /\ UNCHANGED <<macros, if_stack, last, panicked>>

\* self.out.get_unchecked(from..to) is defined for from <= to <= len
InRange(buf, from, to) == from <= to /\ to <= Len(buf)

ActionChunk_AddsSpace ==
    /\ InLoop
    /\ Current.t = "Chunk"
    /\ LET f == Last(stack) IN
       /\ InRange(Self.out, f.out_pos, Current.n)
       /\ outs' = AppendOut(outs, Slice(Self.out, f.out_pos, Current.n) \o <<" ">>)
       /\ stack' = Append(Front(stack), [NextAction(f) EXCEPT !.out_pos = Current.n])
    /\ UNCHANGED <<macros, if_stack, last, panicked>>

ActionChunk ==
    /\ InLoop
    /\ Current.t = "Chunk"
    /\ LET f == Last(stack) IN
       /\ InRange(Self.out, f.out_pos, Current.n)
       /\ outs' = AppendOut(outs, Slice(Self.out, f.out_pos, Current.n))
       /\ stack' = Append(Front(stack), [NextAction(f) EXCEPT !.out_pos = Current.n])
    /\ UNCHANGED <<macros, if_stack, last, panicked>>

\* get_unchecked out of range is undefined behaviour: the process dies, or
\* some bytes are appended and the loop goes on
ActionChunkUnchecked ==
    /\ InLoop
    /\ Current.t = "Chunk"
    /\ LET f == Last(stack) IN
       /\ ~InRange(Self.out, f.out_pos, Current.n)
       /\ \/ Unwind
          \/ \E bytes \in UncheckedBytes :
                /\ outs' = AppendOut(outs, bytes)
                /\ stack' = Append(Front(stack),
                                   [NextAction(f) EXCEPT !.out_pos = Current.n])
                /\ UNCHANGED <<macros, if_stack, last, panicked>>

\* the literal tail, then: Lexer::new(&output); in_use.set(true);
\* macro_final_eval(out, context)
Rescan(tail) ==
    LET f == Last(stack) IN
    /\ macros' = [macros EXCEPT ![f.name].in_use = TRUE]
    /\ stack' = Append(Front(stack), ScanFrame(Last(outs) \o tail, Some(f.name), f.call))
    /\ outs' = Front(outs)
    /\ UNCHANGED <<if_stack, last, panicked>>

ActionsDone == Assembling /\ Last(stack).ai > Len(Self.actions)

Assembled ==
    /\ ActionsDone
    /\ InRange(Self.out, Last(stack).out_pos, Len(Self.out))
    /\ Rescan(Slice(Self.out, Last(stack).out_pos, Len(Self.out)))

AssembledUnchecked ==
    /\ ActionsDone
    /\ ~InRange(Self.out, Last(stack).out_pos, Len(Self.out))
    /\ \/ Unwind
       \/ \E bytes \in UncheckedBytes : Rescan(bytes)

Next ==
    \/ \E d \in ObjectDefs : add_object(d)
    \/ \E d \in FunctionDefs : add_function(d)
    \/ \E name \in Names : undef(name)
    \/ \E name \in CallNames, input \in Inputs, prefix \in Prefixes :
          Expand(name, input, prefix)
    \/ Return
    \/ ScanIdent
    \/ ScanCopy
    \/ RescanEnd
    \/ ArgEnd
    \/ IndexPanic
    \/ ActionArg
    \/ ActionConcat
    \/ ActionStringify
    \/ ActionChunk
    \/ ActionChunkUnchecked
    \/ Assembled
    \/ AssembledUnchecked

Spec == Init /\ [][Next]_vars

\* a call of PContext::eval runs to completion: nothing suspends it
Step ==
    \/ ScanIdent
    \/ ScanCopy
    \/ RescanEnd
    \/ ArgEnd
    \/ IndexPanic
    \/ ActionArg
    \/ ActionConcat
    \/ ActionStringify
    \/ ActionChunk
    \/ ActionChunkUnchecked
    \/ Assembled
    \/ AssembledUnchecked

FairSpec == Spec /\ WF_vars(Step)

\* the macro table and the conditional stack under the directive entry points
NextTable ==
    \/ \E d \in ObjectDefs : add_object(d)
    \/ \E d \in FunctionDefs : add_function(d)
    \/ \E name \in Names : undef(name)
    \/ \E state \in IfState : add_if(state)
    \/ rm_if
    \/ \E state \in IfState : if_change(state)

SpecTable == Init /\ [][NextTable]_vars

(***************************************************************************)
(* The escape decoder of character literals, src/lexer/cchar.rs.  A Lexer  *)
(* is its buffer, its position and its length; the decoder is entered      *)
(* with the lexer standing just behind a backslash (get_c_char_u32).       *)
(***************************************************************************)
MaxEsc == 5

\* the bytes the inputs behind a backslash are made of
EscBytes == {"0", "7", "8", "'"}

OctBytes == <<"0", "1", "2", "3", "4", "5", "6", "7">>

\* b'0' <= c && c <= b'7'
IsOct(c) == \E i \in 1..Len(OctBytes) : OctBytes[i] = c

\* u32::from(c - b'0') for an octal digit c
OctDigit(c) == (CHOOSE i \in 1..Len(OctBytes) : OctBytes[i] = c) - 1

\* u32::from(c) for the bytes of kind SEL
ByteCode(c) ==
    CASE c = "'" -> 39
      [] c = Quote -> 34
      [] c = "?" -> 63
      [] c = Backslash -> 92

\* the kinds of the table ECHARS, for the bytes of EscBytes and the other
\* bytes of kind SEL
ECHARS(c) ==
    CASE IsOct(c) -> "OCT"
      [] c \in {"'", Quote, "?", Backslash} -> "SEL"
      [] OTHER -> "NON"

Lexer_new(buf) == [buf |-> buf, pos |-> 0, len |-> Len(buf)]

\* the byte at pos + offset
next_char(lexer, offset) == lexer.buf[lexer.pos + offset + 1]

\* the loop has no bound on the number of digits; num is a u32 and stays
\* far below 2^32 for the runs of at most MaxEsc + 1 digits of the inputs
RECURSIVE get_oct_char(_, _)
get_oct_char(lexer, num) ==
    IF lexer.pos < lexer.len
    THEN LET c == next_char(lexer, 0) IN
         IF IsOct(c)
         THEN get_oct_char([lexer EXCEPT !.pos = @ + 1],
                           8 * num + OctDigit(c))
         ELSE [lexer |-> lexer, ret |-> num, panic |-> FALSE]
    ELSE [lexer |-> lexer, ret |-> num, panic |-> FALSE]

get_escape(lexer) ==
    IF lexer.pos < lexer.len
    THEN LET c == next_char(lexer, 0)
             l1 == [lexer EXCEPT !.pos = @ + 1]
             kind == ECHARS(c)
         IN  CASE kind = "SEL" ->
                    [lexer |-> l1, ret |-> ByteCode(c), panic |-> FALSE]
               [] kind = "OCT" -> get_oct_char(l1, OctDigit(c))
               [] OTHER -> \* unreachable!()
                    [lexer |-> l1, ret |-> 0, panic |-> TRUE]
    ELSE [lexer |-> lexer, ret |-> 0, panic |-> FALSE]

RECURSIVE BytesUpTo(_)
BytesUpTo(n) ==
    IF n = 0 THEN { <<>> }
    ELSE LET shorter == BytesUpTo(n - 1) IN
         shorter \cup { Append(b, c) : b \in shorter, c \in EscBytes }

EscInputs == BytesUpTo(MaxEsc)

CharFrame(lexer) == [t |-> "char", lexer |-> lexer]

InitChar ==
    /\ macros = <<>>
    /\ if_stack = <<>>
    /\ \E buf \in EscInputs : stack = <<CharFrame(Lexer_new(buf))>>
    /\ outs = << <<>> >>
    /\ last = [op |-> "init"]
    /\ panicked = FALSE

\* get_c_char_u32 has met a backslash and calls get_escape
DecodeEscape ==
    /\ stack # <<>>
    /\ Last(stack).t = "char"
    /\ last.op = "init"
    /\ LET lexer == Last(stack).lexer
           r == get_escape(lexer)
       IN  /\ stack' = IF r.panic THEN <<>> ELSE <<CharFrame(r.lexer)>>
           /\ panicked' = r.panic
           /\ last' = [op |-> "get_escape", buf |-> lexer.buf,
                        kind |-> IF lexer.pos < lexer.len
                                 THEN ECHARS(next_char(lexer, 0))
                                 ELSE "NON",
                        pos |-> r.lexer.pos, ret |-> r.ret]
    /\ UNCHANGED <<macros, if_stack, outs>>

\* the next read of the loop of get_c_char_u32 takes the byte the decoder
\* has left at the position
ReadNext ==
    /\ stack # <<>>
    /\ Last(stack).t = "char"
    /\ last.op = "get_escape"
    /\ LET lexer == Last(stack).lexer IN
       /\ lexer.pos < lexer.len
       /\ stack' = <<CharFrame([lexer EXCEPT !.pos = @ + 1])>>
       /\ last' = [op |-> "next_char", buf |-> lexer.buf,
                    c |-> next_char(lexer, 0)]
    /\ UNCHANGED <<macros, if_stack, outs, panicked>>

NextChar ==
    \/ DecodeEscape
    \/ ReadNext

SpecChar == InitChar /\ [][NextChar]_vars

(***************************************************************************)
(* Properties.                                                             *)
(***************************************************************************)
\* the macro whose replacement text the frame rescans
Rescans(frame, name) == frame.t = "scan" /\ frame.owner = Some(name)

BeingRescanned(name) == \E i \in 1..Len(stack) : Rescans(stack[i], name)

\* C1: unless a panic has unwound the call, a macro's in_use cell is set
\* exactly while a frame rescanning that macro's own replacement text is on
\* the call stack, and at most one such frame exists; hence every cell is
\* clear again once PContext::eval has returned, with true or with false.
C1_InUsePaired ==
    ~panicked =>
        /\ \A name \in DOMAIN macros :
              macros[name].in_use <=> BeingRescanned(name)
        /\ \A i, j \in 1..Len(stack) :
              (i # j /\ stack[i].t = "scan" /\ stack[j].t = "scan"
                 /\ stack[i].owner # None)
                 => stack[i].owner # stack[j].owner
        /\ (stack = <<>> => \A name \in DOMAIN macros : ~macros[name].in_use)

\* the call on A, A -> B -> A, has returned true: B was rescanned inside
\* the rescan of A, the nested call on A returned false, all cells are clear
C1_Witness ==
    /\ stack = <<>>
    /\ ~panicked
    /\ last.op = "eval"
    /\ last.ret
    /\ last.call.top
    /\ last.call.name = NameA
    /\ Lookup(macros, NameA) = Some(A_toB)
    /\ Lookup(macros, NameB) = Some(B_toA)
    /\ last.out1 = last.call.out0 \o <<"A">>

\* the scanner stands on an identifier naming a macro that is in use
AtInUseName ==
    /\ Scanning
    /\ Last(stack).pos <= Len(Last(stack).buf)
    /\ Last(stack).buf[Last(stack).pos] \in Letters
    /\ LET f == Last(stack)
           tok == SubSeq(f.buf, f.pos, TokenEnd(f.buf, f.pos) - 1)
       IN tok \in DOMAIN macros /\ macros[tok].in_use

\* C2: every expansion in progress comes to an end, and an identifier met
\* during rescanning that names a macro in use (the reappearance of a macro
\* inside its own expansion, direct or through a cycle) is appended to the
\* output as it is spelled, nothing after it consumed, nothing expanded.
C2_SelfReference ==
    /\ (stack # <<>>) ~> (stack = <<>>)
    /\ [][AtInUseName =>
            LET f == Last(stack)
                e == TokenEnd(f.buf, f.pos)
            IN /\ outs' = AppendOut(outs, SubSeq(f.buf, f.pos, e - 1))
               /\ stack' = Append(Front(stack), [f EXCEPT !.pos = e])
               /\ macros' = macros]_vars

\* inside a cycle of two macros the name of the entry macro came up again
\* and was left unexpanded
C2_Witness ==
    /\ Len(stack) >= 2
    /\ stack[1].t = "scan"
    /\ stack[2].t = "scan"
    /\ stack[2].owner # None
    /\ last.op = "eval"
    /\ ~last.ret
    /\ last.call.in_use
    /\ Some(last.call.name) = stack[1].owner
    /\ Len(Last(outs)) >= 1
    /\ <<Last(Last(outs))>> = last.call.name

\* argument collection fails for the call recorded in last
CollectionFails(c) ==
    /\ c.kind = "Function"
    /\ ~get_arguments(c.rest, macros[c.name].n_args, macros[c.name].va_args).ok

\* C3: a call of PContext::eval that returns, returns false exactly when the
\* name has no definition, the macro is in use, or it is a function macro
\* and argument collection fails; and then out is as it was on entry.
C3_FalseExactlyWhen ==
    last.op = "eval" =>
        LET c == last.call IN
        /\ ~last.ret <=> (~c.known \/ c.in_use \/ CollectionFails(c))
        /\ ~last.ret => last.out1 = c.out0

\* a call on a function macro that is not in use returned false
C3_Witness ==
    /\ last.op = "eval"
    /\ ~last.ret
    /\ last.call.known
    /\ ~last.call.in_use
    /\ last.call.kind = "Function"
    /\ last.call.out0 # <<>>

\* C4: for a macro whose in_use cell is set, get_type gives MacroType::None
\* and PContext::eval returns false without touching out or the table, as
\* they do for a name without a definition.
C4_InUseIsAbsent ==
    \A name \in DOMAIN macros :
        macros[name].in_use =>
            /\ get(name) = get(<<"a">>)
            /\ get_type(name) = get_type(<<"a">>)
            /\ \A rest \in Inputs :
                  LET r == eval(name, rest, outs) IN
                  /\ ~r.ret
                  /\ ~r.pending
                  /\ r.outs = outs
                  /\ r.macros = macros
                  /\ r.push = <<>>

\* a function macro and an object macro are in use at once
C4_Witness ==
    /\ \E name \in DOMAIN macros :
          macros[name].in_use /\ macros[name].kind = "Function"
    /\ \E name \in DOMAIN macros :
          macros[name].in_use /\ macros[name].kind = "Object"

\* C5: PContext::eval never panics, whatever definitions the table was
\* given through add_object, add_function and undef.
C5_NeverPanics == ~panicked

\* the outermost call, on name with the text rest after it, has returned true
Expanded(name, rest) ==
    /\ stack = <<>>
    /\ last.op = "eval"
    /\ last.ret
    /\ last.call.top
    /\ last.call.name = name
    /\ last.call.rest = rest

\* what the returned call has appended to out
Grew(bytes) == last.out1 = last.call.out0 \o bytes

Is(name, mac) == Lookup(macros, name) = Some(mac)

\* C6: Arg(i) appends argument i macro-expanded, Concat(i) and Stringify(i)
\* append its unexpanded spelling, Stringify between double quotes: with
\* #define F(x) x, F(A) gives the expansion of A (1 for A defined as 1, a
\* for A defined as B and B as a, A itself when A has no definition); with
\* #define F(x) #x, F(A) gives "A" however A is defined; with
\* #define F(x,y) 1 x##y a, F(A, B) gives 1 AB a however A and B are defined.
C6_ArgExpandedPasteRaw ==
    /\ (Expanded(NameF, InA) /\ Is(NameF, F_id) /\ Is(NameA, A_one))
          => Grew(<<"1">>)
    /\ (Expanded(NameF, InA) /\ Is(NameF, F_id) /\ Is(NameA, A_toB) /\ Is(NameB, B_a))
          => Grew(<<"a">>)
    /\ (Expanded(NameF, InA) /\ Is(NameF, F_id) /\ ~defined(NameA))
          => Grew(<<"A">>)
    /\ (Expanded(NameF, InA) /\ Is(NameF, F_str))
          => Grew(<<Quote, "A", Quote>>)
    /\ (Expanded(NameF, InAB) /\ Is(NameF, F_cat))
          => Grew(<<"1", " ", "A", "B", " ", "a">>)

\* F(A) has returned for #define F(x) #x while A is defined as 1
C6_Witness ==
    /\ Expanded(NameF, InA)
    /\ Is(NameF, F_str)
    /\ Is(NameA, A_one)
    /\ Grew(<<Quote, "A", Quote>>)

RECURSIVE ChunksFit(_, _, _, _)
\* every Chunk end is at or after the cursor and within the literal buffer,
\* every argument index is below the number of argument groups
ChunksFit(acts, lit, n_groups, cursor) ==
    IF acts = <<>> THEN TRUE
    ELSE IF Head(acts).t = "Chunk"
         THEN /\ cursor <= Head(acts).n
              /\ Head(acts).n <= Len(lit)
              /\ ChunksFit(Tail(acts), lit, n_groups, Head(acts).n)
         ELSE /\ Head(acts).n < n_groups
              /\ ChunksFit(Tail(acts), lit, n_groups, cursor)

RECURSIVE Replay(_, _, _, _)
\* the literal slices and the arguments as they are spelled (quoted and
\* escaped for Stringify), in action order, then the literal tail
Replay(acts, lit, args, cursor) ==
    IF acts = <<>> THEN Slice(lit, cursor, Len(lit))
    ELSE IF Head(acts).t = "Chunk"
         THEN Slice(lit, cursor, Head(acts).n)
                 \o Replay(Tail(acts), lit, args, Head(acts).n)
    ELSE IF Head(acts).t = "Stringify"
         THEN <<Quote>> \o Escape(args[Head(acts).n + 1]) \o <<Quote>>
                 \o Replay(Tail(acts), lit, args, cursor)
    ELSE args[Head(acts).n + 1] \o Replay(Tail(acts), lit, args, cursor)

\* no Arg action of the program has an argument that names a defined macro
EchoedVerbatim(acts, args) ==
    \A k \in 1..Len(acts) :
        acts[k].t = "Arg" =>
            \A b \in 1..Len(args[acts[k].n + 1]) :
                <<args[acts[k].n + 1][b]>> \notin DOMAIN macros

\* C7: the buffer a function macro hands to the rescan is the literal slices
\* of its Chunk actions and the renderings of its arguments in action order,
\* then the literal tail, with no byte added or dropped in between (for an
\* action program that fits its literal buffer and its arguments, arguments
\* rendered by Arg being compared when they name no defined macro).
C7_AssembledBuffer ==
    \A i \in 1..Len(stack) :
        (stack[i].t = "scan" /\ stack[i].owner # None
            /\ macros[stack[i].owner[1]].kind = "Function") =>
        LET mac == macros[stack[i].owner[1]]
            a == get_arguments(stack[i].call[1].rest, mac.n_args, mac.va_args)
        IN (ChunksFit(mac.actions, mac.out, Len(a.args), 0)
              /\ EchoedVerbatim(mac.actions, a.args))
           => stack[i].buf = Replay(mac.actions, mac.out, a.args, 0)

\* F(A, B) for #define F(x,y) 1 x##y a hands 1 AB a to the rescan
C7_Witness ==
    /\ stack # <<>>
    /\ Rescans(Last(stack), NameF)
    /\ macros[NameF].out = F_cat.out
    /\ macros[NameF].actions = F_cat.actions
    /\ Last(stack).buf = <<"1", " ", "A", "B", " ", "a">>
    /\ Last(stack).pos = 1

\* the identifier name is a token of text
Mentions(text, name) ==
    \E i \in 1..Len(text) :
        /\ text[i] \in Letters
        /\ (i = 1 \/ text[i - 1] \notin Letters \cup Digits)
        /\ SubSeq(text, i, TokenEnd(text, i) - 1) = name

\* a call on an object macro that was not in use has returned
ObjectCallReturned ==
    /\ last.op = "eval"
    /\ last.call.known
    /\ last.call.kind = "Object"
    /\ ~last.call.in_use

\* C8 as stated: a call on an object macro whose replacement text does not
\* mention its own name appends exactly the stored replacement text.
C8_Original ==
    (ObjectCallReturned /\ ~Mentions(macros[last.call.name].out, last.call.name))
        => (last.ret /\ Grew(macros[last.call.name].out))

\* C8 amended: an object macro defined with has_id false is never rescanned,
\* and every call on it appends exactly its stored replacement text.
C8_VerbatimWithoutHasId ==
    /\ (ObjectCallReturned /\ ~macros[last.call.name].has_id)
          => (last.ret /\ Grew(macros[last.call.name].out))
    /\ \A name \in DOMAIN macros :
          (macros[name].kind = "Object" /\ ~macros[name].has_id)
             => ~macros[name].in_use

\* a call on A defined as 1, nested in another expansion, has returned
C8_Witness ==
    /\ ObjectCallReturned
    /\ last.call.name = NameA
    /\ Is(NameA, A_one)
    /\ ~last.call.top
    /\ last.call.out0 # <<>>
    /\ Grew(<<"1">>)

\* C9: with #define F(x,...) x __VA_ARGS__, F(a, 1, 1) binds x to a and the
\* variadic parameter to 1,1 and gives a 1,1; F(A) binds the variadic
\* parameter to the empty group, succeeds and gives the expansion of A and
\* the literal space, no comma; argument collection for a variadic macro
\* always yields the fixed groups and one variadic group.
C9_Variadic ==
    /\ (Expanded(NameF, InThree) /\ Is(NameF, F_va))
          => Grew(<<"a", " ", "1", ",", "1">>)
    /\ (Expanded(NameF, InA) /\ Is(NameF, F_va) /\ ~defined(NameA))
          => Grew(<<"A", " ">>)
    /\ (Expanded(NameF, InA) /\ Is(NameF, F_va) /\ Is(NameA, A_one))
          => Grew(<<"1", " ">>)
    /\ (last.op = "eval" /\ last.call.top /\ last.call.name = NameF
          /\ last.call.rest \in {InA, InAB, InThree, InNested}
          /\ Is(NameF, F_va))
          => last.ret
    /\ \A i \in 1..Len(stack) :
          (stack[i].t = "asm" /\ macros[stack[i].name].va_args # None) =>
              /\ Len(stack[i].args) = macros[stack[i].name].va_args[1] + 1
              /\ stack[i].call[1].rest = InThree
                    => stack[i].args = << <<"a">>, <<"1", ",", "1">> >>
              /\ stack[i].call[1].rest = InA
                    => stack[i].args = << <<"A">>, <<>> >>

\* F(a, 1, 1) has returned for the variadic F
C9_Witness ==
    /\ Expanded(NameF, InThree)
    /\ Is(NameF, F_va)
    /\ Grew(<<"a", " ", "1", ",", "1">>)

\* every name but name has the definition it had, or none as before
OthersKept(name) ==
    \A n \in Names \ {name} : Lookup(macros', n) = Lookup(macros, n)

\* C10: add_object and add_function leave exactly the given definition
\* under the name, whatever was defined there; undef leaves none and
\* changes nothing when there was none; each leaves the definitions of all
\* other names and the conditional stack as they were.
C10_TableFrame ==
    [][/\ last'.op \in {"add_object", "add_function"} =>
            /\ Lookup(macros', last'.name) = Some(last'.mac)
            /\ ~last'.mac.in_use
            /\ OthersKept(last'.name)
            /\ if_stack' = if_stack
       /\ last'.op = "undef" =>
            /\ Lookup(macros', last'.name) = None
            /\ last'.name \notin DOMAIN macros'
            /\ OthersKept(last'.name)
            /\ if_stack' = if_stack
            /\ (last'.old = None => macros' = macros)]_vars

\* B, defined as a function macro, has been redefined as an object macro
\* while A is defined and a conditional block is open
C10_Witness ==
    /\ last.op = "add_object"
    /\ last.name = NameB
    /\ last.old = Some(B_toF)
    /\ Is(NameB, last.mac)
    /\ defined(NameA)
    /\ if_stack # <<>>

\* the operations of the conditional stack
IfOps == {"add_if", "rm_if", "if_change"}

\* C11: each operation of the conditional stack (add_if, rm_if, if_state,
\* if_change) completes without a panic in every reachable stack state,
\* the empty stack included.
C11_StackOpsComplete == last.op \in IfOps => ~panicked

\* what C11 says beyond the absence of a panic: if_state of the empty stack
\* is None, rm_if of the empty stack leaves it empty, add_if adds one entry
\* on top, and an if_change that returns replaces the top entry only.
C11_ReturningOps ==
    [][/\ (if_stack = <<>> <=> if_state = None)
       /\ last'.op = "add_if" =>
            /\ if_stack' = Append(if_stack, last'.state)
            /\ if_state' = Some(last'.state)
       /\ last'.op = "rm_if" =>
            /\ if_stack = <<>> => if_stack' = <<>>
            /\ if_stack # <<>> => if_stack' = Front(if_stack)
       /\ (last'.op = "if_change" /\ ~panicked') =>
            /\ Len(if_stack') = Len(if_stack)
            /\ Front(if_stack') = Front(if_stack)
            /\ if_state' = Some(last'.state)
       /\ last'.op \in IfOps => macros' = macros]_vars

\* the number of octal digits buf starts with
RECURSIVE OctRun(_)
OctRun(buf) ==
    IF buf # <<>> /\ IsOct(buf[1]) THEN 1 + OctRun(Tail(buf)) ELSE 0

\* the value in base 8 of a sequence of octal digits
RECURSIVE Base8(_)
Base8(digits) ==
    IF digits = <<>> THEN 0
    ELSE 8 * Base8(Front(digits)) + OctDigit(Last(digits))

Min(a, b) == IF a < b THEN a ELSE b

\* an octal escape has been decoded
OctDecoded == last.op = "get_escape" /\ last.kind = "OCT"

\* C12: decoding an octal escape consumes the octal digits behind the
\* backslash up to the first byte that is none or the end of the input,
\* and at most three of them; it returns their value in base 8 and leaves
\* every later byte, a fourth octal digit included, for the next read.
C12_AtMostThreeDigits ==
    OctDecoded =>
        LET n == Min(OctRun(last.buf), 3) IN
        /\ last.pos = n
        /\ last.ret = Base8(SubSeq(last.buf, 1, n))

\* what get_escape does: the whole run of octal digits is consumed,
\* whatever its length, and its value in base 8 is returned
C12_WholeRun ==
    OctDecoded =>
        LET n == OctRun(last.buf) IN
        /\ last.pos = n
        /\ last.ret = Base8(SubSeq(last.buf, 1, n))

\* a frame above frame i of the call stack rescans the text of name
RescannedAbove(i, name) ==
    \E j \in (i + 1)..Len(stack) : Rescans(stack[j], name)

\* C13: an invocation of a function macro does not set the macro's in_use
\* cell while it runs its actions: the cell is clear whenever the action
\* loop of the macro is at work, and while an Arg action has an argument
\* evaluated the cell is set only by an invocation of the same macro inside
\* that argument, which is rescanning its own buffer; the cell is set as
\* long as the assembled buffer is rescanned.  So F(F(A)) has the inner
\* invocation expanded, and the name F in the assembled buffer is copied.
C13_InUseOnlyOnRescan ==
    /\ \A i \in 1..Len(stack) :
          /\ stack[i].t = "asm" =>
                /\ stack[i].name \in DOMAIN macros
                /\ i = Len(stack) => ~macros[stack[i].name].in_use
                /\ macros[stack[i].name].in_use =>
                      RescannedAbove(i, stack[i].name)
          /\ (stack[i].t = "scan" /\ stack[i].owner # None) =>
                /\ stack[i].owner[1] \in DOMAIN macros
                /\ macros[stack[i].owner[1]].in_use
    /\ (Expanded(NameF, InNested) /\ Is(NameF, F_id) /\ Is(NameA, A_one))
          => Grew(<<"1">>)
    /\ (Expanded(NameF, InNested) /\ Is(NameF, F_self) /\ ~defined(NameA))
          => Grew(<<"A", " ", "F", "(", "A", ")", " ",
                    "F", "(", "A", " ", "F", "(", "A", ")", ")">>)

\* F(F(A)) has returned for #define F(x) x F(x): the invocation inside the
\* argument gave A F(A), and no F of the assembled buffer was expanded
C13_Witness ==
    /\ Expanded(NameF, InNested)
    /\ Is(NameF, F_self)
    /\ ~defined(NameA)
    /\ Grew(<<"A", " ", "F", "(", "A", ")", " ",
              "F", "(", "A", " ", "F", "(", "A", ")", ")">>)

\* the action loop of F waits for its argument, in which an invocation of
\* F rescans its own assembled buffer
C13_NestedRescan ==
    \E i \in 1..Len(stack) :
       /\ stack[i].t = "asm"
       /\ RescannedAbove(i, stack[i].name)

\* C14: PContext::defined looks at the table only: it is true exactly for
\* the names that have a definition stored, true after add_object and
\* add_function and false after undef, whatever the in_use cells hold; for
\* a macro in use it is true while get gives None, get_type gives
\* MacroType::None and PContext::eval returns false.
C14_DefinedIgnoresInUse ==
    /\ \A name \in CallNames :
          defined(name) <=> Lookup(macros, name) # None
    /\ last.op \in {"add_object", "add_function"} => defined(last.name)
    /\ last.op = "undef" => ~defined(last.name)
    /\ \A name \in DOMAIN macros :
          macros[name].in_use =>
             /\ defined(name)
             /\ get(name) = None
             /\ get_type(name).type = "None"
             /\ \A rest \in Inputs : ~eval(name, rest, outs).ret

\* the rescan of a macro's text has met the macro's own name: the call on
\* it has returned false, and the name is still defined
C14_Witness ==
    /\ stack # <<>>
    /\ last.op = "eval"
    /\ ~last.ret
    /\ last.call.in_use
    /\ BeingRescanned(last.call.name)
    /\ defined(last.call.name)
    /\ get(last.call.name) = None

====
